---- MODULE Spec2Model ----
(***************************************************************************)
(* Model of ros/src/tl_detector/tl_detector.py: the TLDetector node.       *)
(*                                                                         *)
(* Points are pairs <<x, y>> of integers.  Euclidean distances are only    *)
(* ever compared, so they are modelled by their squares.  A Python value   *)
(* that may be None is a sequence of length 0 (None) or 1 (the value).     *)
(* Waypoint indices are 0-based as in the source; TLA+ sequences are       *)
(* 1-based, so index i of a list l is l[i + 1].                            *)
(***************************************************************************)
EXTENDS Integers, Sequences, FiniteSets, TLC

VARIABLES
    pose,             \* self.pose: None or the vehicle position
    waypoints,        \* self.waypoints: None or the received Lane
    waypoints_array,  \* self.waypoints_array: None (unset) or the coordinates
    waypoints_tree,   \* self.waypoints_tree: None or the KDTree's points
    lights,           \* self.lights: the latest TrafficLightArray.lights
    has_image,        \* self.has_image
    state,            \* self.state
    last_state,       \* self.last_state
    last_wp,          \* self.last_wp
    state_count,      \* self.state_count
    win,              \* history: the last Window evaluated frames
    nframes,          \* history: number of frames evaluated so far
    pc,               \* image thread: position inside image_cb
    loc,              \* image thread: locals of image_cb and of
                      \* process_traffic_lights
    wpc,              \* waypoints thread: None, or the next line of waypoints_cb
    ctor,             \* main thread: position in __init__, attributes not yet
                      \* assigned, the attribute whose read ended the latest
                      \* frame with AttributeError
    call              \* a call of a function on its own: arguments, position
                      \* and result, and the attributes only the call reads

vars == <<pose, waypoints, waypoints_array, waypoints_tree, lights, has_image,
          state, last_state, last_wp, state_count, win, nframes, pc, loc, wpc,
          ctor, call>>

shared == <<pose, waypoints, waypoints_array, waypoints_tree, lights>>
decision == <<state, last_state, last_wp, state_count>>

(***************************************************************************)
(* Program constants.                                                      *)
(***************************************************************************)
STATE_COUNT_THRESHOLD == 3
MAX_DISTANCE == 200

None == <<>>
Some(x) == <<x>>

\* The values of styx_msgs/TrafficLight.state.
LightStates == {"RED", "YELLOW", "GREEN", "UNKNOWN"}

(***************************************************************************)
(* Bounds of the model.                                                    *)
(***************************************************************************)
MaxCount == 5       \* cap of state_count, unbounded in the source
MaxLights == 2      \* lights in a list drawn by the selector specification
MaxThreadFrames == 2 \* frames evaluated in a behaviour of the threaded node
RouteLen == 300     \* waypoints of the long route
ShortLen == 1       \* waypoints of the short route
MaxStopLines == 3   \* stop lines of a configuration drawn for a call
MaxStartupFrames == 1 \* frames evaluated in a behaviour of the startup
MaxRouteFrames == 4 \* frames evaluated in a behaviour with routes arriving

(***************************************************************************)
(* Geometry and the spatial index.                                         *)
(***************************************************************************)

\* distance_2d, squared.
distance_2d(a, b) ==
    LET xdiff == a[1] - b[1]
        ydiff == a[2] - b[2]
    IN  xdiff * xdiff + ydiff * ydiff

\* The nearest point of a non-empty data to p, as a 1-based position.  The
\* search splits the index range in halves, as the tree does, and keeps the
\* lower index among equally near points.
RECURSIVE KDScan(_, _, _, _)
KDScan(data, p, lo, hi) ==
    IF lo = hi THEN lo
    ELSE LET mid == (lo + hi) \div 2
             l == KDScan(data, p, lo, mid)
             r == KDScan(data, p, mid + 1, hi)
         IN  IF distance_2d(data[r], p) < distance_2d(data[l], p) THEN r ELSE l

\* The points a query is ever made for: vehicle positions, light positions
\* and stop lines.
QueryXs == {0, 2, 5, 7, 12, 13, 15, 17, 45, 46, 48, 50, 205, 207, 255, 257}
QueryPoints == {<<x, y>> : x \in QueryXs, y \in {0, 1, 2}}

\* KDTree(data), line 125: the index built over data, as the answers it
\* gives: the 0-based index of the nearest point, for every query point.
KDTree(data) == [p \in QueryPoints |-> KDScan(data, p, 1, Len(data)) - 1]

\* tree.query([p])[1][0], lines 205 and 222.
KDQuery(tree, p) == tree[p]

\* get_closest_waypoint(pose): -1 without a tree.
get_closest_waypoint(tree, position) ==
    IF tree = None THEN -1 ELSE KDQuery(tree[1], position)

\* get_nearest_stop_waypoint(location): -1 without a tree.
get_nearest_stop_waypoint(tree, location) ==
    IF tree = None THEN -1 ELSE KDQuery(tree[1], location)

\* self.config['stop_line_positions']
stop_line_positions ==
    << <<0, 1>>, <<5, 1>>, <<12, 1>>, <<15, 1>>, <<45, 1>>, <<48, 1>>,
       <<205, 1>>, <<255, 1>> >>

\* Line 181, min_distance = 1E10 metres: ten units on the scale "Gm", whose
\* unit of length is 1E9 metres.
min_distance_Gm == 10

\* d < 1E10, the test of line 185 while min_distance is still the value of
\* line 181, for a squared distance d2.  On the scale "m" (metres) every
\* squared distance the model holds is below 2^31, so the test succeeds; on
\* the scale "Gm" it is decided by the numbers.
BelowStart(d2, scale) ==
    IF scale = "Gm" THEN d2 < min_distance_Gm * min_distance_Gm ELSE TRUE

\* Lines 181-188: the linear scan with strict "<" from stop line i on;
\* min_stop_line is the 1-based position of the nearest stop line so far,
\* 0 for None, when min_distance is still 1E10.
RECURSIVE StopLineScan(_, _, _, _, _)
StopLineScan(cfg, position, i, min_stop_line, scale) ==
    IF i > Len(cfg) THEN min_stop_line
    ELSE IF \/ /\ min_stop_line = 0
               /\ BelowStart(distance_2d(cfg[i], position), scale)
            \/ /\ min_stop_line # 0
               /\ distance_2d(cfg[i], position)
                      < distance_2d(cfg[min_stop_line], position)
         THEN StopLineScan(cfg, position, i + 1, i, scale)
         ELSE StopLineScan(cfg, position, i + 1, min_stop_line, scale)

\* get_nearest_stop_line for a configuration cfg: None or the stop line.
nearest_stop_line(cfg, position, scale) ==
    LET k == StopLineScan(cfg, position, 1, 0, scale)
    IN  IF k = 0 THEN None ELSE Some(cfg[k])

\* get_nearest_stop_line(position) of the node, whose positions are metres.
get_nearest_stop_line(position) ==
    nearest_stop_line(stop_line_positions, position, "m")[1]

(***************************************************************************)
(* process_traffic_lights.                                                 *)
(***************************************************************************)

\* A traffic light: [pos |-> <<x, y>>, state |-> one of LightStates].
\* The selector's locals; closest_light is the 1-based position of the light
\* in the iterated list, 0 for None.
NoCandidate ==
    [closest_distance |-> MAX_DISTANCE, closest_light |-> 0,
     closest_light_wp |-> -1, closest_stop_wp |-> -1]

\* Consider without the test that the light is ahead of the vehicle.
ConsiderBehind(acc, k, light_wp, stop_wp, car_position) ==
    LET distance == stop_wp - car_position
    IN  IF distance < acc.closest_distance
        THEN [closest_distance |-> distance, closest_light |-> k,
              closest_light_wp |-> light_wp, closest_stop_wp |-> stop_wp]
        ELSE acc

\* Consider taking a light at the vehicle's own waypoint (">=" for ">").
ConsiderAtVehicle(acc, k, light_wp, stop_wp, car_position) ==
    LET distance == stop_wp - car_position
    IN  IF distance < acc.closest_distance /\ distance >= 0
        THEN [closest_distance |-> distance, closest_light |-> k,
              closest_light_wp |-> light_wp, closest_stop_wp |-> stop_wp]
        ELSE acc

\* Lines 337-344: the candidate test for the k-th light.
Consider(acc, k, light_wp, stop_wp, car_position) ==
    LET distance == stop_wp - car_position
    IN  IF distance < acc.closest_distance /\ distance > 0
        THEN [closest_distance |-> distance, closest_light |-> k,
              closest_light_wp |-> light_wp, closest_stop_wp |-> stop_wp]
        ELSE acc

\* Outcome without lines 349-350: YELLOW is returned as it is.
OutcomeRawState(ls, acc, car_position) ==
    IF acc.closest_light # 0
    THEN [light_wp |-> acc.closest_light_wp, stop_wp |-> acc.closest_stop_wp,
          state |-> ls[acc.closest_light].state,
          closest_light |-> acc.closest_light, clears |-> FALSE,
          car_position |-> car_position]
    ELSE [light_wp |-> -1, stop_wp |-> -1, state |-> "UNKNOWN",
          closest_light |-> 0, clears |-> TRUE, car_position |-> car_position]

\* Lines 347-354: what is returned for the loop's outcome; clears tells
\* whether line 353 (self.waypoints = None) ran.
Outcome(ls, acc, car_position) ==
    IF acc.closest_light # 0
    THEN [light_wp |-> acc.closest_light_wp, stop_wp |-> acc.closest_stop_wp,
          state |-> IF ls[acc.closest_light].state = "YELLOW"
                    THEN "RED" ELSE ls[acc.closest_light].state,
          closest_light |-> acc.closest_light, clears |-> FALSE,
          car_position |-> car_position]
    ELSE [light_wp |-> -1, stop_wp |-> -1, state |-> "UNKNOWN",
          closest_light |-> 0, clears |-> TRUE, car_position |-> car_position]

\* Line 354 reached with self.pose unset.
NoPose ==
    [light_wp |-> -1, stop_wp |-> -1, state |-> "UNKNOWN",
     closest_light |-> 0, clears |-> FALSE, car_position |-> -1]

(***************************************************************************)
(* image_cb, lines 148-164: the debounce of the selector's result.         *)
(***************************************************************************)

\* Trusted one frame early (">= THRESHOLD - 1").
TrustedEarly(count) ==
    count >= STATE_COUNT_THRESHOLD - 1

\* Line 151: the state has been seen often enough to be acted on.
Trusted(count) ==
    count >= STATE_COUNT_THRESHOLD

\* Restarted without line 149: a changed state keeps the count.
RestartedKeep(count) ==
    count

\* Restarted starting a new run at 1 instead of 0.
RestartedAtOne(count) ==
    1

\* Line 149: state_count when the state has changed.
Restarted(count) ==
    0

\* Commit publishing the waypoint committed before.
CommitStalePublish(last, stop_wp, st) ==
    LET wp == IF st = "RED" THEN stop_wp ELSE -1
    IN  [last_wp |-> wp, pubs |-> <<last>>]

\* Commit without line 154: the stop waypoint whatever the state.
CommitAnyState(last, stop_wp, st) ==
    [last_wp |-> stop_wp, pubs |-> <<stop_wp>>]

\* Commit keeping a committed stop waypoint while the state stays RED.
CommitKeepWaypoint(last, stop_wp, st) ==
    LET wp == IF st = "RED" THEN (IF last # -1 THEN last ELSE stop_wp) ELSE -1
    IN  [last_wp |-> wp, pubs |-> <<wp>>]

\* Lines 154-161: last is self.last_wp, stop_wp and st the selector's
\* result; what is assigned to self.last_wp and what is published.
Commit(last, stop_wp, st) ==
    LET wp == IF st = "RED" THEN stop_wp ELSE -1
    IN  [last_wp |-> wp, pubs |-> <<wp>>]

\* Hold publishing "no stop" instead of last_wp.
HoldNoStop(last) ==
    <<-1>>

\* Line 163: what is published while the state is not trusted.
Hold(last) ==
    <<last>>

(***************************************************************************)
(* Inputs of the callbacks.                                                *)
(***************************************************************************)

\* The long route runs along the x axis from the origin, one waypoint per
\* unit; the short route is a stretch of the same road that ends at the
\* origin.
Long == [i \in 1..RouteLen |-> <<i - 1, 0>>]
Short == [i \in 1..ShortLen |-> <<i - ShortLen, 0>>]
WaypointLists == {Long, Short}

\* A Lane without waypoints: line 120 makes an array of shape (0,) of it and
\* KDTree raises ValueError on line 125.
EmptyLane == <<>>

\* The index of every list, built once.
TreeOf == [w \in WaypointLists |-> KDTree(w)]

Poses == {<<0, 0>>}

Light(x, s) == [pos |-> <<x, 2>>, state |-> s]

\* The light lists the node receives on /vehicle/traffic_lights.
FrameLightLists ==
    {<<>>, <<Light(50, "RED")>>, <<Light(50, "GREEN")>>,
     <<Light(13, "YELLOW")>>}

(***************************************************************************)
(* History kept for the properties: one record per evaluated frame, the    *)
(* last Window of them, and the number of frames, counted up to            *)
(* Window + 1 ("more than four").                                          *)
(***************************************************************************)
Window == STATE_COUNT_THRESHOLD + 1

Push(w, rec) ==
    IF Len(w) < Window THEN Append(w, rec) ELSE Append(Tail(w), rec)

Counted(n) == IF n > Window THEN n ELSE n + 1

\* The index distance of light k of ls from the vehicle, as line 337 has it.
IndexDistance(p, tree, ls, k) ==
    get_nearest_stop_waypoint(tree, get_nearest_stop_line(ls[k].pos))
        - get_closest_waypoint(tree, p[1])

\* Light k is strictly ahead and closer than MAX_DISTANCE.
Qualifies(p, tree, ls, k) ==
    /\ p # None
    /\ IndexDistance(p, tree, ls, k) > 0
    /\ IndexDistance(p, tree, ls, k) < MAX_DISTANCE

\* A light of the list the frame iterates qualifies, against the pose and the
\* index the node holds when the frame returns.
FrameQualifies ==
    \E k \in 1..Len(loc.ls) : Qualifies(pose, waypoints_tree, loc.ls, k)

\* The record of the frame with the locals l, self.last_wp and
\* self.state_count being wp_after and count_after when it returns.
FrameRecord(l, qual, wp_after, count_after) ==
    [car |-> l.r.car_position, light_wp |-> l.r.light_wp,
     stop_wp |-> l.r.stop_wp, state |-> l.r.state,
     raw |-> IF l.r.closest_light = 0 THEN "NONE"
             ELSE l.ls[l.r.closest_light].state,
     closest_light |-> l.r.closest_light, qual |-> qual, pubs |-> l.pubs,
     branch |-> l.branch, wp_before |-> l.wp_before, wp_after |-> wp_after,
     count_after |-> count_after]

(***************************************************************************)
(* The node as rospy runs it: one thread per subscribed topic, so that the *)
(* callbacks of different topics interleave between statements.  pose_cb   *)
(* and traffic_cb are single assignments of what the selector reads;       *)
(* waypoints_cb and image_cb advance one read or write of a shared         *)
(* attribute at a time.  An attribute of ctor.unset does not exist yet:    *)
(* its read raises AttributeError, which ends the callback.                *)
(***************************************************************************)
\* __init__ has run to rospy.spin(): every attribute is assigned.
Constructed == [at |-> "spin", unset |-> {}, raised |-> {}]

\* No function is called on its own.
NoCall == [fn |-> "none"]

\* The image thread between frames: no locals, no query made.  arg is the
\* argument of the query under way, trees the indexes that have answered,
\* count the value line 164 has read; wp_before, pubs and branch are kept
\* for the frame's record.
InitLoc ==
    [ls |-> <<>>, k |-> 0, arg |-> None, car_position |-> -1, light_wp |-> -1,
     acc |-> NoCandidate, r |-> NoPose, trees |-> {}, wp_before |-> -1,
     pubs |-> <<>>, branch |-> "none", count |-> 0]

Init ==
    /\ pose = None
    /\ waypoints = None
    /\ waypoints_array = None
    /\ waypoints_tree = None
    /\ lights = <<>>
    /\ has_image = FALSE
    /\ state = "UNKNOWN"
    /\ last_state = "UNKNOWN"
    /\ last_wp = -1
    /\ state_count = 0
    /\ win = <<>>
    /\ nframes = 0
    /\ pc = "idle"
    /\ loc = InitLoc
    /\ wpc = None
    /\ ctor = Constructed
    /\ call = NoCall

\* pose_cb, lines 102-116.
pose_cb ==
    \E msg \in Poses :
        /\ pose' = Some(msg)
        /\ UNCHANGED <<waypoints, waypoints_array, waypoints_tree, lights,
                       has_image, decision, win, nframes, pc, loc, wpc, ctor, call>>

\* traffic_cb, lines 127-128.
traffic_cb ==
    \E msg \in FrameLightLists :
        /\ lights' = msg
        /\ UNCHANGED <<pose, waypoints, waypoints_array, waypoints_tree,
                       has_image, decision, win, nframes, pc, loc, wpc, ctor, call>>

\* waypoints_cb, line 119.
W_waypoints ==
    \E msg \in WaypointLists \cup {EmptyLane} :
        /\ wpc = None
        /\ waypoints' = Some(msg)
        /\ wpc' = Some("array")
        /\ UNCHANGED <<pose, waypoints_array, waypoints_tree, lights, has_image,
                       decision, win, nframes, pc, loc, ctor, call>>

\* waypoints_cb, lines 120-121: reads self.waypoints.waypoints again; with
\* self.waypoints set to None meanwhile (line 353) the callback raises and
\* ends.
W_array ==
    /\ wpc = Some("array")
    /\ IF waypoints = None
       THEN wpc' = None /\ UNCHANGED waypoints_array
       ELSE wpc' = Some("tree") /\ waypoints_array' = waypoints
    /\ UNCHANGED <<pose, waypoints, waypoints_tree, lights, has_image,
                   decision, win, nframes, pc, loc, ctor, call>>

\* waypoints_cb, line 125: KDTree raises ValueError on an array without
\* points, and self.waypoints_tree stays as it was.
W_tree ==
    /\ wpc = Some("tree")
    /\ IF waypoints_array[1] = EmptyLane
       THEN UNCHANGED <<waypoints_tree, ctor>>
       ELSE /\ waypoints_tree' = Some(TreeOf[waypoints_array[1]])
            /\ ctor' = [ctor EXCEPT !.unset = @ \ {"waypoints_tree"}]
    /\ wpc' = None
    /\ UNCHANGED <<pose, waypoints, waypoints_array, lights, has_image,
                   decision, win, nframes, pc, loc, call>>

\* waypoints_cb, lines 118-125: a step of the callback.
waypoints_cb == W_waypoints \/ W_array \/ W_tree

\* image_cb ends with the AttributeError of reading a (of calling a, for
\* the method query of None): rospy logs it, the frame is lost.
Raise(a) ==
    /\ pc' = "idle"
    /\ loc' = InitLoc
    /\ ctor' = [ctor EXCEPT !.raised = {a}]

\* image_cb, lines 138-140, and process_traffic_lights up to the test of
\* self.pose on line 323; line 322 reads self.config.
T_begin ==
    /\ pc = "idle"
    /\ has_image' = TRUE
    /\ IF "config" \in ctor.unset
       THEN Raise("config")
       ELSE /\ loc' = InitLoc
            /\ pc' = IF pose = None THEN "debounce" ELSE "car_test"
            /\ ctor' = [ctor EXCEPT !.raised = {}]
    /\ UNCHANGED <<shared, decision, win, nframes, wpc, call>>

\* Line 324 and get_closest_waypoint up to its test, line 202: -1 without
\* an index.
T_car_test ==
    /\ pc = "car_test"
    /\ IF "waypoints_tree" \in ctor.unset
       THEN Raise("waypoints_tree")
       ELSE /\ IF waypoints_tree = None
               THEN /\ loc' = [loc EXCEPT !.car_position = -1,
                                          !.trees = @ \cup {None}]
                    /\ pc' = "lights"
               ELSE /\ loc' = [loc EXCEPT !.arg = Some(pose[1])]
                    /\ pc' = "car_query"
            /\ UNCHANGED ctor
    /\ UNCHANGED <<shared, has_image, decision, win, nframes, wpc, call>>

\* Line 205: the query, against self.waypoints_tree as it is now; None has
\* no attribute query.
T_car_query ==
    /\ pc = "car_query"
    /\ IF waypoints_tree = None
       THEN Raise("query")
       ELSE /\ loc' = [loc EXCEPT
                          !.car_position = KDQuery(waypoints_tree[1], loc.arg[1]),
                          !.arg = None,
                          !.trees = @ \cup {waypoints_tree}]
            /\ pc' = "lights"
            /\ UNCHANGED ctor
    /\ UNCHANGED <<shared, has_image, decision, win, nframes, wpc, call>>

\* Line 332: the list the loop iterates is self.lights as it is now.
T_lights ==
    /\ pc = "lights"
    /\ loc' = [loc EXCEPT !.ls = lights, !.k = 1]
    /\ pc' = IF lights = <<>> THEN "end" ELSE "light_test"
    /\ UNCHANGED <<shared, has_image, decision, win, nframes, wpc, ctor, call>>

\* Line 333, get_closest_waypoint up to line 202.
T_light_test ==
    /\ pc = "light_test"
    /\ IF waypoints_tree = None
       THEN /\ loc' = [loc EXCEPT !.light_wp = -1, !.trees = @ \cup {None}]
            /\ pc' = "stop_test"
       ELSE /\ loc' = [loc EXCEPT !.arg = Some(loc.ls[loc.k].pos)]
            /\ pc' = "light_query"
    /\ UNCHANGED <<shared, has_image, decision, win, nframes, wpc, ctor, call>>

\* Line 205.
T_light_query ==
    /\ pc = "light_query"
    /\ IF waypoints_tree = None
       THEN Raise("query")
       ELSE /\ loc' = [loc EXCEPT
                          !.light_wp = KDQuery(waypoints_tree[1], loc.arg[1]),
                          !.arg = None,
                          !.trees = @ \cup {waypoints_tree}]
            /\ pc' = "stop_test"
            /\ UNCHANGED ctor
    /\ UNCHANGED <<shared, has_image, decision, win, nframes, wpc, call>>

\* Lines 337-344 for the light loc.k with the stop waypoint stop_wp, and the
\* loop's next position.
Considered(stop_wp) ==
    [loc EXCEPT !.acc = Consider(loc.acc, loc.k, loc.light_wp, stop_wp,
                                 loc.car_position),
                !.k = loc.k + 1,
                !.arg = None]

NextLight == IF loc.k + 1 > Len(loc.ls) THEN "end" ELSE "light_test"

\* Lines 334-335, get_nearest_stop_waypoint up to its test, line 219;
\* without an index the stop waypoint is -1 and lines 337-344 follow.
T_stop_test ==
    /\ pc = "stop_test"
    /\ IF waypoints_tree = None
       THEN /\ loc' = [Considered(-1) EXCEPT !.trees = @ \cup {None}]
            /\ pc' = NextLight
       ELSE /\ loc' = [loc EXCEPT
                          !.arg = Some(get_nearest_stop_line(loc.ls[loc.k].pos))]
            /\ pc' = "stop_query"
    /\ UNCHANGED <<shared, has_image, decision, win, nframes, wpc, ctor, call>>

\* Line 222, then lines 337-344.
T_stop_query ==
    /\ pc = "stop_query"
    /\ IF waypoints_tree = None
       THEN Raise("query")
       ELSE /\ loc' = [Considered(KDQuery(waypoints_tree[1], loc.arg[1]))
                          EXCEPT !.trees = @ \cup {waypoints_tree}]
            /\ pc' = NextLight
            /\ UNCHANGED ctor
    /\ UNCHANGED <<shared, has_image, decision, win, nframes, wpc, call>>

\* Lines 346-354.
T_end ==
    /\ pc = "end"
    /\ LET r == Outcome(loc.ls, loc.acc, loc.car_position)
       IN  /\ loc' = [loc EXCEPT !.r = r]
           /\ waypoints' = IF r.clears THEN None ELSE waypoints
    /\ pc' = "debounce"
    /\ UNCHANGED <<pose, waypoints_array, waypoints_tree, lights, has_image,
                   decision, win, nframes, wpc, ctor, call>>

\* Line 148; for the frame's record, self.last_wp as the debounce finds it.
D_state ==
    /\ pc = "debounce"
    /\ IF "state" \in ctor.unset
       THEN Raise("state")
       ELSE /\ loc' = [loc EXCEPT !.wp_before = last_wp]
            /\ pc' = IF state # loc.r.state THEN "reset_count" ELSE "count_test"
            /\ UNCHANGED ctor
    /\ UNCHANGED <<shared, has_image, decision, win, nframes, wpc, call>>

\* Line 149.
D_reset_count ==
    /\ pc = "reset_count"
    /\ state_count' = Restarted(state_count)
    /\ ctor' = [ctor EXCEPT !.unset = @ \ {"state_count"}]
    /\ loc' = [loc EXCEPT !.branch = "reset"]
    /\ pc' = "reset_state"
    /\ UNCHANGED <<shared, has_image, state, last_state, last_wp, win, nframes,
                   wpc, call>>

\* Line 150.
D_reset_state ==
    /\ pc = "reset_state"
    /\ state' = loc.r.state
    /\ pc' = "count_read"
    /\ UNCHANGED <<shared, has_image, last_state, last_wp, state_count, win,
                   nframes, loc, wpc, ctor, call>>

\* Line 151.
D_count_test ==
    /\ pc = "count_test"
    /\ IF "state_count" \in ctor.unset
       THEN Raise("state_count")
       ELSE /\ pc' = IF Trusted(state_count) THEN "commit_state" ELSE "hold"
            /\ UNCHANGED <<loc, ctor>>
    /\ UNCHANGED <<shared, has_image, decision, win, nframes, wpc, call>>

\* Line 152.
D_commit_state ==
    /\ pc = "commit_state"
    /\ last_state' = state
    /\ ctor' = [ctor EXCEPT !.unset = @ \ {"last_state"}]
    /\ pc' = "commit"
    /\ UNCHANGED <<shared, has_image, state, last_wp, state_count, win,
                   nframes, loc, wpc, call>>

\* Lines 153-161.
D_commit ==
    /\ pc = "commit"
    /\ LET c == Commit(last_wp, loc.r.stop_wp, loc.r.state)
       IN  /\ last_wp' = c.last_wp
           /\ loc' = [loc EXCEPT !.pubs = c.pubs, !.branch = "commit"]
    /\ ctor' = [ctor EXCEPT !.unset = @ \ {"last_wp"}]
    /\ pc' = "count_read"
    /\ UNCHANGED <<shared, has_image, state, last_state, state_count, win,
                   nframes, wpc, call>>

\* Line 163.
D_hold ==
    /\ pc = "hold"
    /\ IF "last_wp" \in ctor.unset
       THEN Raise("last_wp")
       ELSE /\ loc' = [loc EXCEPT !.pubs = Hold(last_wp), !.branch = "hold"]
            /\ pc' = "count_read"
            /\ UNCHANGED ctor
    /\ UNCHANGED <<shared, has_image, decision, win, nframes, wpc, call>>

\* Line 164, the read of self.state_count, which line 149 has assigned or
\* line 151 has read.
D_count_read ==
    /\ pc = "count_read"
    /\ loc' = [loc EXCEPT !.count = state_count]
    /\ pc' = "count_write"
    /\ UNCHANGED <<shared, has_image, decision, win, nframes, wpc, ctor, call>>

\* Line 164, the write, and the return of image_cb: the frame is evaluated.
\* The counter of a run of equal states is unbounded in the source; the
\* model stops at MaxCount.
D_count_write ==
    /\ pc = "count_write"
    /\ loc.count + 1 <= MaxCount
    /\ state_count' = loc.count + 1
    /\ win' = Push(win, FrameRecord(loc, FrameQualifies, last_wp, loc.count + 1))
    /\ nframes' = Counted(nframes)
    /\ pc' = "idle"
    /\ loc' = InitLoc
    /\ UNCHANGED <<shared, has_image, state, last_state, last_wp, wpc, ctor,
                   call>>

\* process_traffic_lights after line 323.
T_select ==
    \/ T_car_test
    \/ T_car_query
    \/ T_lights
    \/ T_light_test
    \/ T_light_query
    \/ T_stop_test
    \/ T_stop_query
    \/ T_end

\* Lines 148-151 and 163-164: the debounce of a state that is not trusted.
D_untrusted ==
    \/ D_state
    \/ D_reset_count
    \/ D_reset_state
    \/ D_count_test
    \/ D_hold
    \/ D_count_read
    \/ D_count_write

\* Lines 152-161.
D_trusted == D_commit_state \/ D_commit

\* image_cb, lines 130-164: a step of the callback.
image_cb == T_begin \/ T_select \/ D_untrusted \/ D_trusted

\* A camera frame arrives, one of the first MaxThreadFrames.
BoundedFrame == nframes < MaxThreadFrames /\ T_begin

\* The node after construction.  A state is trusted on its fourth frame,
\* which a behaviour of MaxThreadFrames frames does not reach.
Next ==
    \/ pose_cb
    \/ traffic_cb
    \/ waypoints_cb
    \/ BoundedFrame
    \/ T_select
    \/ D_untrusted

Spec == Init /\ [][Next]_vars

(***************************************************************************)
(* Properties of the node, under Spec.                                     *)
(***************************************************************************)

\* The latest evaluated frame, and the state reported j frames before it;
\* the process start counts as a run of UNKNOWN.
Last == win[Len(win)]
StateBack(j) == IF Len(win) - j >= 1 THEN win[Len(win) - j].state ELSE "UNKNOWN"

\* The window holds exactly the first four frames of the process.
FirstFour == nframes = 4 /\ Len(win) = 4

RECURSIVE Concat(_, _)
Concat(w, i) == IF i > Len(w) THEN <<>> ELSE w[i].pubs \o Concat(w, i + 1)

\* Everything published by the frames of the window, in order.
Published == Concat(win, 1)

\* C2: every evaluated frame publishes exactly one integer.
C2_OnePublishPerFrame ==
    \A i \in 1..Len(win) : Len(win[i].pubs) = 1

\* C10: the queries of one frame evaluation are all answered against the
\* same waypoint index (or all without one).
C10_OneSnapshot ==
    Cardinality(loc.trees) <= 1

\* C12: a frame evaluation leaves the pose, the waypoint list, the waypoint
\* index and the light list as they are.
C12_FrameReadsOnly ==
    [][image_cb => UNCHANGED <<pose, waypoints, waypoints_array,
                               waypoints_tree, lights>>]_vars

\* C14: without an index, and once waypoints_cb has ended for a Lane without
\* waypoints, every nearest-waypoint query returns -1.
C14_SentinelWithoutIndex ==
    (wpc = None /\ (waypoints_tree = None \/ waypoints_array = Some(EmptyLane)))
    => \A p \in QueryPoints :
           /\ get_closest_waypoint(waypoints_tree, p) = -1
           /\ get_nearest_stop_waypoint(waypoints_tree, p) = -1

(***************************************************************************)
(* The image thread of the node that has received the vehicle's pose and   *)
(* the long route, with light lists arriving: frames are evaluated without *)
(* end, against one pose and one waypoint index.                           *)
(***************************************************************************)
InitFrames ==
    /\ pose = Some(<<0, 0>>)
    /\ waypoints = Some(Long)
    /\ waypoints_array = Some(Long)
    /\ waypoints_tree = Some(TreeOf[Long])
    /\ lights = <<>>
    /\ has_image = FALSE
    /\ state = "UNKNOWN"
    /\ last_state = "UNKNOWN"
    /\ last_wp = -1
    /\ state_count = 0
    /\ win = <<>>
    /\ nframes = 0
    /\ pc = "idle"
    /\ loc = InitLoc
    /\ wpc = None
    /\ ctor = Constructed
    /\ call = NoCall

FramesNext == traffic_cb \/ image_cb

SpecFrames == InitFrames /\ [][FramesNext]_vars

(***************************************************************************)
(* Properties of the debounce, under SpecFrames.                           *)
(***************************************************************************)

\* C1: from the initial decision state, four consecutive frames whose
\* selector result is (w, RED) publish w on the fourth frame and on none of
\* the first three.
C1_FourthFramePublishes ==
    (FirstFour /\ \A i \in 1..4 :
                      win[i].state = "RED" /\ win[i].stop_wp = win[1].stop_wp)
    => /\ win[4].pubs = <<win[1].stop_wp>>
       /\ \A i \in 1..3 : \A j \in 1..Len(win[i].pubs) :
              win[i].pubs[j] # win[1].stop_wp

C1_Witness ==
    /\ FirstFour
    /\ \A i \in 1..4 : win[i].state = "RED" /\ win[i].stop_wp = 48
    /\ win[4].pubs = <<48>>
    /\ win[4].branch = "commit"

\* C3: vehicle at waypoint 0, the light at waypoint 50 with its stop line at
\* waypoint 48 reporting RED on the first four frames: the published values
\* are exactly -1, -1, -1, 48.
C3_EndToEnd ==
    (FirstFour /\ \A i \in 1..4 :
                      /\ win[i].car = 0
                      /\ win[i].light_wp = 50
                      /\ win[i].stop_wp = 48
                      /\ win[i].raw = "RED")
    => Published = <<-1, -1, -1, 48>>

\* C4: last_wp changes value only on a frame whose state equals the state of
\* each of the three frames before it (the start of the process counting as
\* a run of UNKNOWN).
C4_ChangeNeedsFourEqual ==
    (Len(win) >= 1 /\ Last.wp_after # Last.wp_before)
    => \A j \in 1..3 : StateBack(j) = Last.state

\* RED committed on a frame after the fourth, with the run of RED filling
\* the window: the frame before it was not RED.
C4_Witness ==
    /\ nframes > Window
    /\ \A i \in 1..4 : win[i].state = "RED"
    /\ win[1].branch = "reset"
    /\ Last.wp_before = -1
    /\ Last.wp_after = 48

\* C8: a frame whose selected light is YELLOW reports RED, and four such
\* frames from the initial state publish the light's stop waypoint on the
\* fourth.
C8_YellowIsRed ==
    /\ \A i \in 1..Len(win) : win[i].raw = "YELLOW" => win[i].state = "RED"
    /\ (FirstFour /\ \A i \in 1..4 :
                         win[i].raw = "YELLOW" /\ win[i].stop_wp = win[1].stop_wp)
       => win[4].pubs = <<win[1].stop_wp>>

C8_Witness ==
    /\ FirstFour
    /\ \A i \in 1..4 : win[i].raw = "YELLOW" /\ win[i].stop_wp = 12
    /\ win[4].pubs = <<12>>

\* C9: when no light qualifies on four consecutive frames, the fourth of
\* them, and so every later frame of the run, publishes -1.
C9_NoLightPublishesNoStop ==
    (Len(win) = 4 /\ \A i \in 1..4 : ~win[i].qual)
    => Last.pubs = <<-1>>

\* A stop waypoint was committed when the run of four began.
C9_Witness ==
    /\ Len(win) = 4
    /\ \A i \in 1..4 : ~win[i].qual
    /\ win[1].wp_before = 48
    /\ Last.pubs = <<-1>>

(***************************************************************************)
(* The branches of the debounce, under SpecFrames.  Frame i of the         *)
(* window, i > 1, follows frame i - 1, whose record holds self.state and   *)
(* state_count as frame i finds them.                                      *)
(***************************************************************************)

\* Frame i finds self.state equal to its state.
SameState(i) == win[i - 1].state = win[i].state

\* C16: after a frame self.state is the frame's state and state_count the
\* length of the run of frames with that state: 1 after a frame that starts
\* a run, one more than before after a frame that continues it (the start of
\* the process being a run of UNKNOWN of length 0); a frame that starts a
\* run leaves last_wp as it was.
C16_CountIsRunLength ==
    /\ (pc = "idle" /\ Len(win) >= 1) =>
           state = Last.state /\ state_count = Last.count_after
    /\ (nframes = 1 /\ Len(win) = 1) =>
           win[1].count_after = 1 /\ win[1].wp_after = win[1].wp_before
    /\ \A i \in 2..Len(win) :
           IF SameState(i)
           THEN win[i].count_after = win[i - 1].count_after + 1
           ELSE /\ win[i].count_after = 1
                /\ win[i].wp_after = win[i].wp_before

\* A stop waypoint is committed, a GREEN frame starts a run, a RED frame the
\* next: the count is 1 again and the stop waypoint is still committed.
C16_Witness ==
    /\ Len(win) = 4
    /\ win[2].wp_after = 48
    /\ win[3].state = "GREEN"
    /\ win[3].count_after = 1
    /\ win[4].state = "RED"
    /\ win[4].count_after = 1
    /\ win[4].wp_after = 48
    /\ state_count = 1

\* C17: a frame that finds its state in self.state and state_count >= 3
\* publishes its stop waypoint if the state is RED and -1 otherwise, and
\* last_wp is what it published.
C17_CommitPublishes ==
    \A i \in 2..Len(win) :
        (SameState(i) /\ win[i - 1].count_after >= STATE_COUNT_THRESHOLD)
        => /\ win[i].pubs =
                  <<IF win[i].state = "RED" THEN win[i].stop_wp ELSE -1>>
           /\ win[i].wp_after = win[i].pubs[1]
           /\ win[i].state # "RED" => win[i].wp_after = -1

\* GREEN is committed with a light selected: the stop waypoint 48 of the
\* frame is not published.
C17_Witness ==
    /\ Len(win) = 4
    /\ \A i \in 1..4 : win[i].state = "GREEN" /\ win[i].stop_wp = 48
    /\ win[3].count_after >= STATE_COUNT_THRESHOLD
    /\ win[4].wp_before = 48
    /\ win[4].pubs = <<-1>>
    /\ win[4].wp_after = -1

\* C18: a frame that finds its state in self.state and state_count < 3
\* publishes last_wp and leaves it as it was.
C18_HoldRepublishes ==
    \A i \in 2..Len(win) :
        (SameState(i) /\ win[i - 1].count_after < STATE_COUNT_THRESHOLD)
        => /\ win[i].pubs = <<win[i].wp_before>>
           /\ win[i].wp_after = win[i].wp_before

\* The committed stop waypoint 48 is published while GREEN is not yet
\* trusted.
C18_Witness ==
    /\ Len(win) >= 2
    /\ Last.state = "GREEN"
    /\ win[Len(win) - 1].state = "GREEN"
    /\ win[Len(win) - 1].count_after < STATE_COUNT_THRESHOLD
    /\ Last.wp_before = 48
    /\ Last.pubs = <<48>>

\* C20: with RED stable, a RED frame with another stop waypoint publishes
\* that waypoint at once.
C20_WaypointNotDebounced ==
    \A i \in 2..Len(win) :
        (/\ win[i - 1].state = "RED"
         /\ win[i - 1].count_after >= STATE_COUNT_THRESHOLD
         /\ win[i].state = "RED"
         /\ win[i].stop_wp # win[i - 1].stop_wp)
        => /\ win[i].pubs = <<win[i].stop_wp>>
           /\ win[i].wp_after = win[i].stop_wp

\* The stop waypoint 48 is committed, the next frame selects the light with
\* the stop waypoint 12 and publishes 12.
C20_Witness ==
    /\ Len(win) >= 2
    /\ win[Len(win) - 1].state = "RED"
    /\ win[Len(win) - 1].count_after >= STATE_COUNT_THRESHOLD
    /\ win[Len(win) - 1].wp_after = 48
    /\ Last.state = "RED"
    /\ Last.stop_wp = 12
    /\ Last.pubs = <<12>>

(***************************************************************************)
(* The same node in front of a red light, with routes arriving.            *)
(***************************************************************************)
InitRoute ==
    /\ pose = Some(<<0, 0>>)
    /\ waypoints = Some(Long)
    /\ waypoints_array = Some(Long)
    /\ waypoints_tree = Some(TreeOf[Long])
    /\ lights = <<Light(50, "RED")>>
    /\ has_image = FALSE
    /\ state = "UNKNOWN"
    /\ last_state = "UNKNOWN"
    /\ last_wp = -1
    /\ state_count = 0
    /\ win = <<>>
    /\ nframes = 0
    /\ pc = "idle"
    /\ loc = InitLoc
    /\ wpc = None
    /\ ctor = Constructed
    /\ call = NoCall

\* A camera frame arrives, one of the first MaxRouteFrames.
RouteFrame == nframes < MaxRouteFrames /\ T_begin

RouteNext == waypoints_cb \/ RouteFrame \/ T_select \/ D_untrusted \/ D_trusted

SpecRoute == InitRoute /\ [][RouteNext]_vars

\* C5: last_wp is -1 or a valid index into the waypoint list received last.
C5_LastWpValidIndex ==
    \/ last_wp = -1
    \/ /\ waypoints_array # None
       /\ 0 <= last_wp
       /\ last_wp < Len(waypoints_array[1])

(***************************************************************************)
(* The selector alone: the image thread from the arrival of a frame to the *)
(* return of process_traffic_lights, on every combination of pose,         *)
(* waypoint index and light list.                                          *)
(***************************************************************************)
SelectorPoses == {<<0, 0>>, <<5, 0>>}

SelectorLights ==
    {Light(x, s) : x \in {2, 7, 13, 17, 46, 50, 207, 257}, s \in {"RED", "GREEN"}}
        \cup {Light(13, "YELLOW"), Light(50, "UNKNOWN")}

\* Lights at the index distances -5, 10, 250 and 40 from the waypoint 5.
ExampleLights ==
    <<Light(2, "RED"), Light(17, "RED"), Light(257, "RED"), Light(46, "RED")>>

SelectorLightLists ==
    UNION {[1..m -> SelectorLights] : m \in 0..MaxLights} \cup {ExampleLights}

InitSelector ==
    /\ pose \in {None} \cup {Some(p) : p \in SelectorPoses}
    /\ \E w \in {None} \cup {Some(l) : l \in WaypointLists} :
           /\ waypoints = w
           /\ waypoints_array = w
           /\ waypoints_tree = IF w = None THEN None ELSE Some(TreeOf[w[1]])
    /\ lights \in SelectorLightLists
    /\ has_image = FALSE
    /\ state = "UNKNOWN"
    /\ last_state = "UNKNOWN"
    /\ last_wp = -1
    /\ state_count = 0
    /\ win = <<>>
    /\ nframes = 0
    /\ pc = "idle"
    /\ loc = InitLoc
    /\ wpc = None
    /\ ctor = Constructed
    /\ call = NoCall

\* image_cb to the return of process_traffic_lights.
SelectorNext == T_begin \/ T_select

SpecSelector == InitSelector /\ [][SelectorNext]_vars

\* process_traffic_lights has returned loc.r to image_cb.
Returned == pc = "debounce"

\* The lights of self.lights that qualify.
Qualifying == {k \in 1..Len(lights) : Qualifies(pose, waypoints_tree, lights, k)}

\* C6: the selector never returns a light whose index distance is <= 0 or
\* >= MAX_DISTANCE, and when some light qualifies it returns one of minimum
\* distance, with that light's waypoints.
C6_NearestAhead ==
    Returned =>
        LET k == loc.r.closest_light
        IN  /\ k # 0 => k \in Qualifying
            /\ Qualifying # {} =>
                /\ k \in Qualifying
                /\ \A j \in Qualifying :
                       IndexDistance(pose, waypoints_tree, lights, k)
                           <= IndexDistance(pose, waypoints_tree, lights, j)
                /\ loc.r.stop_wp - loc.r.car_position
                       = IndexDistance(pose, waypoints_tree, lights, k)
                /\ loc.r.light_wp
                       = get_closest_waypoint(waypoints_tree, lights[k].pos)

\* The lights at distances -5, 10, 250, 40: the one at 10 is returned.
C6_Witness ==
    /\ Returned
    /\ lights = ExampleLights
    /\ pose = Some(<<5, 0>>)
    /\ loc.r.car_position = 5
    /\ loc.r.closest_light = 2
    /\ loc.r.stop_wp = 15

\* C7: without a qualifying light, without a pose, or without a waypoint
\* index, the selector returns (-1, -1, UNKNOWN).
C7_NoCandidate ==
    (Returned /\ (pose = None \/ waypoints_tree = None \/ Qualifying = {}))
    => /\ loc.r.light_wp = -1
       /\ loc.r.stop_wp = -1
       /\ loc.r.state = "UNKNOWN"

\* A pose and lights, but no index: every query answers -1.
C7_Witness ==
    /\ Returned
    /\ pose # None
    /\ waypoints_tree = None
    /\ lights # <<>>
    /\ loc.r.car_position = -1
    /\ loc.r.stop_wp = -1
    /\ loc.r.state = "UNKNOWN"

(***************************************************************************)
(* get_nearest_stop_line on its own: one call for every stop-line          *)
(* configuration, position and scale drawn.  On the scale "Gm" a           *)
(* coordinate 1 is 1E9 metres, so that distances reach line 181's 1E10.    *)
(***************************************************************************)
StopLinePoints == {<<3, 4>>, <<4, 3>>, <<0, 5>>, <<6, 8>>}
StopLineConfigs == UNION {[1..n -> StopLinePoints] : n \in 1..MaxStopLines}
StopLineQueries == {<<0, 0>>, <<3, 4>>, <<30, 0>>}

InitStopLine ==
    /\ \E cfg \in StopLineConfigs, position \in StopLineQueries,
          scale \in {"m", "Gm"} :
           call = [fn |-> "get_nearest_stop_line", cfg |-> cfg,
                   position |-> position, scale |-> scale,
                   done |-> FALSE, result |-> None]
    /\ pose = None
    /\ waypoints = None
    /\ waypoints_array = None
    /\ waypoints_tree = None
    /\ lights = <<>>
    /\ has_image = FALSE
    /\ state = "UNKNOWN"
    /\ last_state = "UNKNOWN"
    /\ last_wp = -1
    /\ state_count = 0
    /\ win = <<>>
    /\ nframes = 0
    /\ pc = "idle"
    /\ loc = InitLoc
    /\ wpc = None
    /\ ctor = Constructed

\* get_nearest_stop_line, lines 179-188, with the configuration as input.
StopLineCall ==
    /\ call.fn = "get_nearest_stop_line"
    /\ ~call.done
    /\ call' = [call EXCEPT
                   !.done = TRUE,
                   !.result = nearest_stop_line(call.cfg, call.position,
                                                call.scale)]
    /\ UNCHANGED <<shared, has_image, decision, win, nframes, pc, loc, wpc,
                   ctor>>

SpecStopLine == InitStopLine /\ [][StopLineCall]_vars

\* Stop line k of the call's configuration is at minimum distance from the
\* call's position and the first such in the configuration.
FirstNearest(k) ==
    /\ \A j \in 1..Len(call.cfg) :
           distance_2d(call.cfg[k], call.position)
               <= distance_2d(call.cfg[j], call.position)
    /\ \A j \in 1..(k - 1) :
           distance_2d(call.cfg[k], call.position)
               < distance_2d(call.cfg[j], call.position)

\* C19: for every position and non-empty configuration, the call returns a
\* stop line, however far the nearest one is: one of minimum distance to
\* the position, the first in configuration order among ties.
C19_NearestStopLine ==
    (call.fn = "get_nearest_stop_line" /\ call.done)
    => /\ call.result # None
       /\ \E k \in 1..Len(call.cfg) :
              call.result = Some(call.cfg[k]) /\ FirstNearest(k)

(***************************************************************************)
(* project_to_image_plane on its own: one call for every point and outcome *)
(* of the transform lookup drawn, on the node after __init__, with poses   *)
(* arriving.  The call waits for the transform and then reads self.car_x,  *)
(* self.car_y and self.yaw, which only pose_cb assigns, in its own thread  *)
(* and one after the other: the call and pose_cb advance one read or write *)
(* of these attributes at a time.  The attributes are read nowhere else in *)
(* the node; they are kept in the record of the call.  The yaw is a        *)
(* multiple of a quarter turn and the depth divides the focal lengths, so  *)
(* that the results, float32 in the source, are whole numbers.             *)
(***************************************************************************)

\* math.cos and math.sin of math.radians(yaw_degrees), lines 88-97.
Cos(yaw_degrees) ==
    CASE yaw_degrees = 0 -> 1
      [] yaw_degrees = 90 -> 0
      [] yaw_degrees = 180 -> -1
      [] yaw_degrees = -90 -> 0

Sin(yaw_degrees) ==
    CASE yaw_degrees = 0 -> 0
      [] yaw_degrees = 90 -> 1
      [] yaw_degrees = 180 -> 0
      [] yaw_degrees = -90 -> -1

\* clockwise_rotation, lines 82-100: <<rotated_x, rotated_y>>.
clockwise_rotation(target_x, target_y, x_origin, y_origin, yaw_degrees) ==
    LET centered_x == target_x - x_origin
        centered_y == target_y - y_origin
        rotated_y == centered_y * Cos(yaw_degrees) - centered_x * Sin(yaw_degrees)
        rotated_x == centered_y * Sin(yaw_degrees) + centered_x * Cos(yaw_degrees)
    IN  <<rotated_x, rotated_y>>

\* self.config['camera_info']
camera_info ==
    [focal_length_x |-> 100, focal_length_y |-> 200,
     image_width |-> 800, image_height |-> 600]

\* The outcomes of waitForTransform and lookupTransform, lines 252-256: the
\* transform, or one of the exceptions of tf (a timeout is tf.Exception).
Lookups == {"ok", "tf.Exception", "tf.LookupException", "tf.ConnectivityException"}

\* project_to_image_plane, lines 238-247 and 263-284, for the values
\* car_x, car_y and yaw that line 275 has read: the point is projected with
\* rvec and tvec zero, whatever the lookup gave: cv2.projectPoints gives
\* fx * X / Z + cx and fy * Y / Z + cy.
project_to_image_plane(point_in_world, car_x, car_y, yaw) ==
    LET fx == camera_info.focal_length_x
        fy == camera_info.focal_length_y
        cx == camera_info.image_width \div 2
        cy == camera_info.image_height \div 2
        rotated == clockwise_rotation(point_in_world[1], point_in_world[2],
                                      car_x, car_y, yaw)
        x == (fx * rotated[1]) \div point_in_world[3] + cx
        y == (fy * rotated[2]) \div point_in_world[3] + cy
    IN  <<x, y>>

ProjectionPoints == {<<3, 4, 1>>, <<3, 4, 2>>, <<0, -1, 2>>, <<-2, 4, 4>>}
ProjectionCars == {<<0, 0>>, <<1, 1>>}
ProjectionYaws == {0, 90, 180, -90}

\* The call is about to start on the node as __init__ leaves it: no pose,
\* and none of self.car_x, self.car_y, self.yaw.  at is the next line of
\* the call, pose_cb the next line of the pose thread with the yaw of its
\* message, or None.
InitProjection ==
    /\ \E point \in ProjectionPoints, lookup \in Lookups :
           call = [fn |-> "project_to_image_plane", point |-> point,
                   lookup |-> lookup, at |-> "lookup", done |-> FALSE,
                   logerr |-> FALSE, read_x |-> None, read_y |-> None,
                   result |-> None, car_x |-> None, car_y |-> None,
                   yaw |-> None, pose_cb |-> None]
    /\ pose = None
    /\ waypoints = None
    /\ waypoints_array = None
    /\ waypoints_tree = None
    /\ lights = <<>>
    /\ has_image = FALSE
    /\ state = "UNKNOWN"
    /\ last_state = "UNKNOWN"
    /\ last_wp = -1
    /\ state_count = 0
    /\ win = <<>>
    /\ nframes = 0
    /\ pc = "idle"
    /\ loc = InitLoc
    /\ wpc = None
    /\ ctor = Constructed

\* pose_cb, line 103, for a message with the position car and an
\* orientation of which Quaternion_toEulerianAngle makes the yaw yaw.
P_pose ==
    \E car \in ProjectionCars, yaw \in ProjectionYaws :
        /\ call.fn = "project_to_image_plane"
        /\ call.pose_cb = None
        /\ pose' = Some(car)
        /\ call' = [call EXCEPT !.pose_cb = Some([line |-> "car_x", yaw |-> yaw])]
        /\ UNCHANGED <<waypoints, waypoints_array, waypoints_tree, lights,
                       has_image, decision, win, nframes, pc, loc, wpc, ctor>>

\* pose_cb, line 106.
P_car_x ==
    /\ call.fn = "project_to_image_plane"
    /\ call.pose_cb # None
    /\ call.pose_cb[1].line = "car_x"
    /\ call' = [call EXCEPT !.car_x = Some(pose[1][1]),
                            !.pose_cb = Some([@[1] EXCEPT !.line = "car_y"])]
    /\ UNCHANGED <<shared, has_image, decision, win, nframes, pc, loc, wpc,
                   ctor>>

\* pose_cb, lines 107-108; self.car_z is read nowhere.
P_car_y ==
    /\ call.fn = "project_to_image_plane"
    /\ call.pose_cb # None
    /\ call.pose_cb[1].line = "car_y"
    /\ call' = [call EXCEPT !.car_y = Some(pose[1][2]),
                            !.pose_cb = Some([@[1] EXCEPT !.line = "yaw"])]
    /\ UNCHANGED <<shared, has_image, decision, win, nframes, pc, loc, wpc,
                   ctor>>

\* pose_cb, lines 111-116; self.roll and self.pitch are read nowhere.
P_yaw ==
    /\ call.fn = "project_to_image_plane"
    /\ call.pose_cb # None
    /\ call.pose_cb[1].line = "yaw"
    /\ call' = [call EXCEPT !.yaw = Some(call.pose_cb[1].yaw),
                            !.pose_cb = None]
    /\ UNCHANGED <<shared, has_image, decision, win, nframes, pc, loc, wpc,
                   ctor>>

\* pose_cb, lines 102-116, a step of the callback.
ProjectionPose == P_pose \/ P_car_x \/ P_car_y \/ P_yaw

\* The call ends with the AttributeError of an attribute pose_cb has not
\* assigned yet.
Unassigned ==
    [call EXCEPT !.at = "done", !.done = TRUE,
                 !.result = [raised |-> Some("AttributeError"), value |-> None]]

\* Lines 238-259: the configuration, the wait for the transform and its
\* lookup.  Every exception of the lookup is caught on line 258 and only
\* logged; the call goes on.
PJ_lookup ==
    /\ call.fn = "project_to_image_plane"
    /\ call.at = "lookup"
    /\ call' = [call EXCEPT !.at = "car_x", !.logerr = (call.lookup # "ok")]
    /\ UNCHANGED <<shared, has_image, decision, win, nframes, pc, loc, wpc,
                   ctor>>

\* Line 275, the read of self.car_x.
PJ_car_x ==
    /\ call.fn = "project_to_image_plane"
    /\ call.at = "car_x"
    /\ call' = IF call.car_x = None THEN Unassigned
               ELSE [call EXCEPT !.at = "car_y", !.read_x = call.car_x]
    /\ UNCHANGED <<shared, has_image, decision, win, nframes, pc, loc, wpc,
                   ctor>>

\* Line 275, the read of self.car_y.
PJ_car_y ==
    /\ call.fn = "project_to_image_plane"
    /\ call.at = "car_y"
    /\ call' = IF call.car_y = None THEN Unassigned
               ELSE [call EXCEPT !.at = "yaw", !.read_y = call.car_y]
    /\ UNCHANGED <<shared, has_image, decision, win, nframes, pc, loc, wpc,
                   ctor>>

\* Line 275, the read of self.yaw, and lines 275-284.
PJ_yaw ==
    /\ call.fn = "project_to_image_plane"
    /\ call.at = "yaw"
    /\ call' = IF call.yaw = None THEN Unassigned
               ELSE [call EXCEPT
                        !.at = "done", !.done = TRUE,
                        !.result =
                            [raised |-> None,
                             value |-> Some(project_to_image_plane(
                                            call.point, call.read_x[1],
                                            call.read_y[1], call.yaw[1]))]]
    /\ UNCHANGED <<shared, has_image, decision, win, nframes, pc, loc, wpc,
                   ctor>>

\* project_to_image_plane, lines 225-284, a step of the call.
ProjectionCall == PJ_lookup \/ PJ_car_x \/ PJ_car_y \/ PJ_yaw

ProjectionNext == ProjectionPose \/ ProjectionCall

SpecProjection == InitProjection /\ [][ProjectionNext]_vars

\* C15: a call whose transform lookup fails ends in the error
\* TransformUnavailable and returns no pixel coordinates.
C15_LookupFailureSkips ==
    (call.fn = "project_to_image_plane" /\ call.done /\ call.lookup # "ok")
    => /\ call.result.raised = Some("TransformUnavailable")
       /\ call.result.value = None

(***************************************************************************)
(* The node while it is constructed.  __init__ registers the subscribers   *)
(* on lines 30-41 and assigns the remaining attributes on lines 43-56;     *)
(* rospy runs a callback in the thread of its topic as soon as a message   *)
(* arrives, so the callbacks interleave with the lines of __init__.  An    *)
(* attribute of ctor.unset does not exist yet: its read raises             *)
(* AttributeError, and the variable of the same name holds no value of     *)
(* the program.                                                            *)
(***************************************************************************)

\* The attributes the callbacks read that __init__ assigns after line 41.
LateAttributes ==
    {"config", "state", "last_state", "last_wp", "state_count",
     "waypoints_tree"}

\* __init__ has run to line 41.
Registered == [at |-> "config", unset |-> LateAttributes, raised |-> {}]

InitStartup ==
    /\ pose = None
    /\ waypoints = None
    /\ waypoints_array = None
    /\ waypoints_tree = None
    /\ lights = <<>>
    /\ has_image = FALSE
    /\ state = "UNKNOWN"
    /\ last_state = "UNKNOWN"
    /\ last_wp = -1
    /\ state_count = 0
    /\ win = <<>>
    /\ nframes = 0
    /\ pc = "idle"
    /\ loc = InitLoc
    /\ wpc = None
    /\ ctor = Registered
    /\ call = NoCall

\* __init__ after the assignment of attribute a, about to run line next.
Constructing(a, next) == [ctor EXCEPT !.at = next, !.unset = @ \ {a}]

\* Lines 43-50: self.config, the publisher, the bridge, the classifier and
\* the transform listener.
C_config ==
    /\ ctor.at = "config"
    /\ ctor' = Constructing("config", "state")
    /\ UNCHANGED <<shared, has_image, decision, win, nframes, pc, loc, wpc,
                   call>>

\* Line 52.
C_state ==
    /\ ctor.at = "state"
    /\ state' = "UNKNOWN"
    /\ ctor' = Constructing("state", "last_state")
    /\ UNCHANGED <<shared, has_image, last_state, last_wp, state_count, win,
                   nframes, pc, loc, wpc, call>>

\* Line 53.
C_last_state ==
    /\ ctor.at = "last_state"
    /\ last_state' = "UNKNOWN"
    /\ ctor' = Constructing("last_state", "last_wp")
    /\ UNCHANGED <<shared, has_image, state, last_wp, state_count, win,
                   nframes, pc, loc, wpc, call>>

\* Line 54.
C_last_wp ==
    /\ ctor.at = "last_wp"
    /\ last_wp' = -1
    /\ ctor' = Constructing("last_wp", "state_count")
    /\ UNCHANGED <<shared, has_image, state, last_state, state_count, win,
                   nframes, pc, loc, wpc, call>>

\* Line 55.
C_state_count ==
    /\ ctor.at = "state_count"
    /\ state_count' = 0
    /\ ctor' = Constructing("state_count", "waypoints_tree")
    /\ UNCHANGED <<shared, has_image, state, last_state, last_wp, win,
                   nframes, pc, loc, wpc, call>>

\* Line 56, then rospy.spin() on line 58.
C_waypoints_tree ==
    /\ ctor.at = "waypoints_tree"
    /\ waypoints_tree' = None
    /\ ctor' = Constructing("waypoints_tree", "spin")
    /\ UNCHANGED <<pose, waypoints, waypoints_array, lights, has_image,
                   decision, win, nframes, pc, loc, wpc, call>>

\* A camera frame arrives, one of the first MaxStartupFrames to be
\* evaluated; a frame that ends with an AttributeError is not counted.  The
\* frames evaluated are too few for a state to be trusted.
StartupFrame == nframes < MaxStartupFrames /\ T_begin

StartupNext ==
    \/ C_config
    \/ C_state
    \/ C_last_state
    \/ C_last_wp
    \/ C_state_count
    \/ C_waypoints_tree
    \/ pose_cb
    \/ waypoints_cb
    \/ traffic_cb
    \/ StartupFrame
    \/ T_select
    \/ D_untrusted

SpecStartup == InitStartup /\ [][StartupNext]_vars

\* C11: once waypoints_cb has completed for a list with waypoints, the
\* index is the one built from the list received last, whatever step comes
\* later, the lines of __init__ included.
C11_IndexFollowsList ==
    (wpc = None /\ waypoints_array # None /\ waypoints_array # Some(EmptyLane))
    => waypoints_tree = Some(TreeOf[waypoints_array[1]])

\* C13: no frame evaluation reads an attribute of the decision state that
\* __init__ has not assigned yet.
C13_DecisionInitialised ==
    ctor.raised \cap {"state", "last_state", "last_wp", "state_count"} = {}

====
